---- MODULE Spec2Model ----
(***************************************************************************)
(* Fee accounting, cascading deletes and term reports of the school back   *)
(* end (src/app.py, src/models.py).                                        *)
(*                                                                         *)
(* The state is the committed content of the tables these read and write:  *)
(* classes, subjects, students, score_grades, fee_structures,              *)
(* pickup_locations and fee_payments, each a function from primary key to  *)
(* row.  SQLite does not enforce the foreign keys (the application never   *)
(* switches them on), so a row may name a parent that does not exist.  A   *)
(* request                                                                 *)
(* handler is an operator from the database it finds and the request to    *)
(* its result: the status of the response, the fields of the response the  *)
(* properties read, and the database it leaves committed.  An action       *)
(* takes a request and installs the database of the handler's result.      *)
(*                                                                         *)
(* Column values are integers: the Float columns hold the amounts the      *)
(* requests carry, and float() of a number is that number.  NULL / None    *)
(* is 0, which Python also treats as false (primary keys start at 1).      *)
(* A nullable column of which 0 is a value (score, max_score) holds Null   *)
(* or Some(v).  A Float that comes out of a division is the exact         *)
(* quotient, kept as numerator and denominator: for the scores the         *)
(* requests carry here, the rounding of (score / max_score) * 100 leaves   *)
(* the result on the same side of every grade threshold.  Columns that no computation reads (person names, dates,    *)
(* gender, nemis_no, payment_date, method, test_id, the term and year of a  *)
(* payment) are left out.                                                  *)
(***************************************************************************)
EXTENDS Integers, FiniteSets, Sequences, TLC

VARIABLES students, fee_structures, pickup_locations, fee_payments,
          classes, subjects, score_grades, teachers, users,
          posts_only, inflight, session, logged_in

vars == <<students, fee_structures, pickup_locations, fee_payments,
          classes, subjects, score_grades, teachers, users,
          posts_only, inflight, session, logged_in>>

\* The committed database.
DB == [students |-> students, fee_structures |-> fee_structures,
       pickup_locations |-> pickup_locations, fee_payments |-> fee_payments,
       classes |-> classes, subjects |-> subjects, score_grades |-> score_grades,
       teachers |-> teachers, users |-> users]

\* ------------------------------------------------------------------ bounds
\* Rows per table under Spec (one student, every fee input) ...
MaxStudents == 1
MaxFeeStructures == 1
MaxPickupLocations == 1
MaxPayments == 2
MaxClasses == 2
\* ... students under SpecStudents (several students, no pickup location) ...
ManyStudents == 2
\* ... and fee structures under SpecFees (the fee structure routes alone).
ManyFeeStructures == 2
\* Requests served at the same time under SpecConc.
MaxWorkers == 2
\* Members of the JSON objects given to calculate_total_fee under SpecTotalFee.
MaxItems == 3
\* Score grade rows under SpecSchool and SpecReport, subjects under SpecReport.
MaxScoreGrades == 2
MaxSubjects == 1
\* Clients (sessions) and users under SpecAuth.
MaxClients == 2
MaxUsers == 2
\* Teachers, payment rows and score grade rows under SpecTeacher.
MaxTeachers == 2
FewPayments == 1
FewScoreGrades == 1

None == 0

\* None in a column of which 0 is a value, and a value v of such a column.
Null == <<>>
Some(v) == <<v>>

ClassIds == 1..MaxClasses
FeeStructureIds == 1..MaxFeeStructures
PickupLocationIds == 1..MaxPickupLocations
PaymentIds == 1..MaxPayments
Workers == 1..MaxWorkers
Clients == 1..MaxClients

\* ------------------------------------------------------------ request data
\* A request body is a function from the keys it carries to their values.
FullFees == [tuition_fee |-> 3, books_fee |-> 1, miscellaneous_fee |-> 1,
             boarding_fee |-> 2, prize_giving_fee |-> 1, exam_fee |-> 2]
NoBoarding == [boarding_fee |-> 0]
OtherFees == [tuition_fee |-> 5, books_fee |-> 2, miscellaneous_fee |-> 4,
              boarding_fee |-> 0, prize_giving_fee |-> 3, exam_fee |-> 6]
NoKeys == [k \in {} |-> 0]

Amounts == {0, 3}
TransportFees == {1, 2}

\* dict.get(key, default)
Get(data, key, default) == IF key \in DOMAIN data THEN data[key] ELSE default

\* ---------------------------------------------------------------- tables
EmptyTable == [k \in {} |-> 0]

\* The id SQLite gives the next inserted row of a table: max(rowid) + 1.
NextId(table) ==
  IF DOMAIN table = {} THEN 1
  ELSE (CHOOSE m \in DOMAIN table : \A k \in DOMAIN table : k <= m) + 1

Insert(table, id, row) ==
  [k \in DOMAIN table \cup {id} |-> IF k = id THEN row ELSE table[k]]

Delete(table, ids) == [k \in DOMAIN table \ ids |-> table[k]]

RECURSIVE SumOver(_, _, _)
\* SELECT SUM(column) over the rows `ids` of `table`
SumOver(table, ids, column) ==
  IF ids = {} THEN 0
  ELSE LET k == CHOOSE x \in ids : TRUE
       IN table[k][column] + SumOver(table, ids \ {k}, column)

\* What a handler returns: the response (status, and the id and balance it
\* carries, None where it carries none) and the database left committed.
Result(status, id, balance, db) ==
  [status |-> status, id |-> id, balance |-> balance, db |-> db]

\* A worker that is serving no request.
Idle == [op |-> "idle"]

\* The server-side session of a client (flask_session, SESSION_TYPE
\* "filesystem"): what flask_login keeps in it is the key "_user_id".
NoSession == [k \in {} |-> 0]

Init ==
  /\ students = EmptyTable
  /\ fee_structures = EmptyTable
  /\ pickup_locations = EmptyTable
  /\ fee_payments = EmptyTable
  /\ classes = EmptyTable
  /\ subjects = EmptyTable
  /\ score_grades = EmptyTable
  /\ teachers = EmptyTable
  /\ users = EmptyTable
  /\ posts_only = {}
  /\ inflight = [w \in Workers |-> Idle]
  /\ session = [c \in Clients |-> NoSession]
  /\ logged_in = {}

\* ------------------------------------------------------------ fee structure
\* request.get_json(): the dict of a JSON object, given as the sequence of
\* its <<key, value>> members in the order they were sent; of two members
\* with one key the later one stays.
dict(items) ==
  [k \in {items[i][1] : i \in DOMAIN items} |->
     items[CHOOSE i \in DOMAIN items :
             /\ items[i][1] = k
             /\ \A j \in DOMAIN items : items[j][1] = k => j <= i][2]]

\* A calculate_total_fee that leaves the last component out.
calculate_total_fee_no_exam_fee(data) ==
  Get(data, "tuition_fee", 0) + Get(data, "books_fee", 0)
  + Get(data, "miscellaneous_fee", 0) + Get(data, "boarding_fee", 0)
  + Get(data, "prize_giving_fee", 0)

\* FeeStructureResource.calculate_total_fee: the six named components of
\* `data`, each missing one counted as 0.0, summed.
calculate_total_fee(data) ==
  Get(data, "tuition_fee", 0) + Get(data, "books_fee", 0)
  + Get(data, "miscellaneous_fee", 0) + Get(data, "boarding_fee", 0)
  + Get(data, "prize_giving_fee", 0) + Get(data, "exam_fee", 0)

\* POST /fee-structure
FeeStructureResource_post(db, data) ==
  LET total_fee == calculate_total_fee(data)
      id == NextId(db.fee_structures)
      fee_structure ==
        [class_id |-> Get(data, "class_id", None),
         tuition_fee |-> Get(data, "tuition_fee", 0),
         books_fee |-> Get(data, "books_fee", 0),
         miscellaneous_fee |-> Get(data, "miscellaneous_fee", 0),
         boarding_fee |-> Get(data, "boarding_fee", 0),
         prize_giving_fee |-> Get(data, "prize_giving_fee", 0),
         exam_fee |-> Get(data, "exam_fee", 0),
         total_fee |-> total_fee]
  IN Result(201, id, None,
            [db EXCEPT !.fee_structures = Insert(@, id, fee_structure)])

\* A PUT /fee-structure/<id> that keeps the stored total_fee.
FeeStructureResource_put_stale_total(db, fee_structure_id, data) ==
  IF fee_structure_id \notin DOMAIN db.fee_structures
  THEN Result(404, None, None, db)
  ELSE LET old == db.fee_structures[fee_structure_id]
           fee_structure ==
             [class_id |-> Get(data, "class_id", old.class_id),
              tuition_fee |-> Get(data, "tuition_fee", old.tuition_fee),
              books_fee |-> Get(data, "books_fee", old.books_fee),
              miscellaneous_fee |-> Get(data, "miscellaneous_fee", old.miscellaneous_fee),
              boarding_fee |-> Get(data, "boarding_fee", old.boarding_fee),
              prize_giving_fee |-> Get(data, "prize_giving_fee", old.prize_giving_fee),
              exam_fee |-> Get(data, "exam_fee", old.exam_fee),
              total_fee |-> old.total_fee]
       IN Result(200, fee_structure_id, None,
                 [db EXCEPT !.fee_structures = Insert(@, fee_structure_id, fee_structure)])

\* PUT /fee-structure/<fee_structure_id>
FeeStructureResource_put(db, fee_structure_id, data) ==
  IF fee_structure_id \notin DOMAIN db.fee_structures
  THEN Result(404, None, None, db)
  ELSE LET old == db.fee_structures[fee_structure_id]
           updated_data ==
             [tuition_fee |-> Get(data, "tuition_fee", old.tuition_fee),
              books_fee |-> Get(data, "books_fee", old.books_fee),
              miscellaneous_fee |-> Get(data, "miscellaneous_fee", old.miscellaneous_fee),
              boarding_fee |-> Get(data, "boarding_fee", old.boarding_fee),
              prize_giving_fee |-> Get(data, "prize_giving_fee", old.prize_giving_fee),
              exam_fee |-> Get(data, "exam_fee", old.exam_fee)]
           fee_structure ==
             [class_id |-> Get(data, "class_id", old.class_id),
              tuition_fee |-> updated_data.tuition_fee,
              books_fee |-> updated_data.books_fee,
              miscellaneous_fee |-> updated_data.miscellaneous_fee,
              boarding_fee |-> updated_data.boarding_fee,
              prize_giving_fee |-> updated_data.prize_giving_fee,
              exam_fee |-> updated_data.exam_fee,
              total_fee |-> calculate_total_fee(updated_data)]
       IN Result(200, fee_structure_id, None,
                 [db EXCEPT !.fee_structures = Insert(@, fee_structure_id, fee_structure)])

\* DELETE /fee-structure/<fee_structure_id>
FeeStructureResource_delete(db, fee_structure_id) ==
  IF fee_structure_id \notin DOMAIN db.fee_structures
  THEN Result(404, None, None, db)
  ELSE Result(200, None, None,
              [db EXCEPT !.fee_structures = Delete(@, {fee_structure_id})])

\* ---------------------------------------------------------- pickup location
\* POST /pickup-location
PickupLocationResource_post(db, data) ==
  LET id == NextId(db.pickup_locations)
      location == [transport_fee |-> Get(data, "transport_fee", 0)]
  IN Result(201, id, None,
            [db EXCEPT !.pickup_locations = Insert(@, id, location)])

\* PUT /pickup-location/<location_id>
PickupLocationResource_put(db, location_id, data) ==
  IF location_id \notin DOMAIN db.pickup_locations
  THEN Result(404, None, None, db)
  ELSE LET location ==
             [transport_fee |->
                Get(data, "transport_fee", db.pickup_locations[location_id].transport_fee)]
       IN Result(200, location_id, None,
                 [db EXCEPT !.pickup_locations = Insert(@, location_id, location)])

\* DELETE /pickup-location/<location_id>.  Student.pickup_location has no
\* delete cascade, so the ORM sets pickup_location_id of the location's
\* students to NULL when it deletes the location.
PickupLocationResource_delete(db, location_id) ==
  IF location_id \notin DOMAIN db.pickup_locations
  THEN Result(404, None, None, db)
  ELSE LET orphaned ==
             [s \in DOMAIN db.students |->
                IF db.students[s].pickup_location_id = location_id
                THEN [db.students[s] EXCEPT !.pickup_location_id = None]
                ELSE db.students[s]]
       IN Result(200, None, None,
                 [db EXCEPT !.pickup_locations = Delete(@, {location_id}),
                            !.students = orphaned])

\* ----------------------------------------------------------------- student
\* FeePayment rows of a student (filter_by(student_id=...))
PaymentsOf(payments, student_id) ==
  {p \in DOMAIN payments : payments[p].student_id = student_id}

\* A POST /students that takes the pickup location of the body.
StudentListResource_post_with_pickup(db, data) ==
  LET id == NextId(db.students)
      new_student == [id |-> id, class_id |-> data["class_id"],
                      pickup_location_id |-> Get(data, "pickup_location_id", None)]
  IN Result(201, id, None, [db EXCEPT !.students = Insert(@, id, new_student)])

\* POST /students: pickup_location_id is not among the columns it sets.
StudentListResource_post(db, data) ==
  LET id == NextId(db.students)
      new_student == [id |-> id, class_id |-> data["class_id"],
                      pickup_location_id |-> None]
  IN Result(201, id, None, [db EXCEPT !.students = Insert(@, id, new_student)])

\* PUT /students/<student_id>
StudentResource_put(db, student_id, data) ==
  IF student_id \notin DOMAIN db.students
  THEN Result(404, None, None, db)
  ELSE LET student == db.students[student_id]
           updated ==
             [id |-> student.id,
              class_id |-> Get(data, "class_id", student.class_id),
              pickup_location_id |->
                Get(data, "pickup_location_id", student.pickup_location_id)]
       IN Result(200, student_id, None,
                 [db EXCEPT !.students = Insert(@, student_id, updated)])

\* ScoreGrade rows of a student (Student.scores)
ScoresOf(scores, student_id) ==
  {g \in DOMAIN scores : scores[g].student_id = student_id}

\* A DELETE /students/<student_id> whose delete reaches the payments only.
StudentResource_delete_payments_only(db, student_id) ==
  IF student_id \notin DOMAIN db.students
  THEN Result(404, None, None, db)
  ELSE Result(200, None, None,
              [db EXCEPT
                 !.students = Delete(@, {student_id}),
                 !.fee_payments = Delete(@, PaymentsOf(@, student_id))])

\* DELETE /students/<student_id>: Student.scores and Student.fee_payments
\* cascade the delete.
StudentResource_delete(db, student_id) ==
  IF student_id \notin DOMAIN db.students
  THEN Result(404, None, None, db)
  ELSE Result(200, None, None,
              [db EXCEPT
                 !.students = Delete(@, {student_id}),
                 !.score_grades = Delete(@, ScoresOf(@, student_id)),
                 !.fee_payments = Delete(@, PaymentsOf(@, student_id))])

\* ------------------------------------------------------------- fee payment
\* FeeStructure.query.filter_by(class_id=...).first(): SQLite scans the table
\* in rowid order, so the row found is the one with the least id.
FeeStructuresOf(db, class_id) ==
  {f \in DOMAIN db.fee_structures : db.fee_structures[f].class_id = class_id}

first(ids) == CHOOSE f \in ids : \A g \in ids : f <= g

\* calculate_grand_total raises ValueError: the class has no fee structure.
ValueError(db, student) == FeeStructuresOf(db, student.class_id) = {}

\* A calculate_grand_total that leaves the transport fee out.
calculate_grand_total_no_transport(db, student) ==
  LET fee_structure == db.fee_structures[first(FeeStructuresOf(db, student.class_id))]
  IN fee_structure.tuition_fee + fee_structure.books_fee
     + fee_structure.miscellaneous_fee + fee_structure.boarding_fee
     + fee_structure.prize_giving_fee + fee_structure.exam_fee

\* FeePaymentResource.calculate_grand_total, when it does not raise.
calculate_grand_total(db, student) ==
  LET fee_structure == db.fee_structures[first(FeeStructuresOf(db, student.class_id))]
      grand_total ==
        fee_structure.tuition_fee + fee_structure.books_fee
        + fee_structure.miscellaneous_fee + fee_structure.boarding_fee
        + fee_structure.prize_giving_fee + fee_structure.exam_fee
  IN IF student.pickup_location_id # None
        /\ student.pickup_location_id \in DOMAIN db.pickup_locations
     THEN grand_total + db.pickup_locations[student.pickup_location_id].transport_fee
     ELSE grand_total

\* A calculate_balance that sums the payments of every student.
calculate_balance_all_students(db, student, new_payment_amount) ==
  calculate_grand_total(db, student)
  - (SumOver(db.fee_payments, DOMAIN db.fee_payments, "amount") + new_payment_amount)

\* A calculate_balance that forgets the payments already stored.
calculate_balance_no_history(db, student, new_payment_amount) ==
  calculate_grand_total(db, student) - new_payment_amount

\* FeePaymentResource.calculate_balance, when calculate_grand_total does not
\* raise.
calculate_balance(db, student, new_payment_amount) ==
  LET grand_total == calculate_grand_total(db, student)
      total_paid ==
        SumOver(db.fee_payments, PaymentsOf(db.fee_payments, student.id), "amount")
      new_total_paid == total_paid + new_payment_amount
  IN grand_total - new_total_paid

\* A POST /fee-payment that takes a missing fee structure for a total of 0.
FeePaymentResource_post_default_zero(db, data) ==
  IF data["student_id"] \notin DOMAIN db.students
  THEN Result(404, None, None, db)
  ELSE LET student == db.students[data["student_id"]]
           balance == IF ValueError(db, student) THEN 0
                      ELSE calculate_balance(db, student, data["amount"])
           id == NextId(db.fee_payments)
           fee_payment == [student_id |-> student.id,
                           amount |-> data["amount"],
                           balance |-> balance]
       IN Result(201, id, balance,
                 [db EXCEPT !.fee_payments = Insert(@, id, fee_payment)])

\* A POST /fee-payment that also refreshes the balance of the student's
\* earlier payments.
FeePaymentResource_post_live(db, data) ==
  IF data["student_id"] \notin DOMAIN db.students
  THEN Result(404, None, None, db)
  ELSE LET student == db.students[data["student_id"]]
       IN IF ValueError(db, student)
          THEN Result(400, None, None, db)
          ELSE LET balance == calculate_balance(db, student, data["amount"])
                   id == NextId(db.fee_payments)
                   fee_payment == [student_id |-> student.id,
                                   amount |-> data["amount"],
                                   balance |-> balance]
                   refreshed ==
                     [p \in DOMAIN db.fee_payments |->
                        IF db.fee_payments[p].student_id = student.id
                        THEN [db.fee_payments[p] EXCEPT !.balance = balance]
                        ELSE db.fee_payments[p]]
               IN Result(201, id, balance,
                         [db EXCEPT !.fee_payments = Insert(refreshed, id, fee_payment)])

\* POST /fee-payment, up to the FeePayment object it builds (line 977): the
\* status it returns early with (0 when it goes on) and the object.
FeePaymentResource_post_read(db, data) ==
  IF data["student_id"] \notin DOMAIN db.students
  THEN [status |-> 404, fee_payment |-> None]
  ELSE LET student == db.students[data["student_id"]]
       IN IF ValueError(db, student)
          THEN [status |-> 400, fee_payment |-> None]
          ELSE LET balance == calculate_balance(db, student, data["amount"])
               IN [status |-> 0,
                   fee_payment |-> [student_id |-> student.id,
                                    amount |-> data["amount"],
                                    balance |-> balance]]

\* A POST /fee-payment that computes the balance again when it commits.
FeePaymentResource_post_commit_isolated(db, fee_payment) ==
  LET id == NextId(db.fee_payments)
      balance == calculate_balance(db, db.students[fee_payment.student_id],
                                   fee_payment.amount)
  IN Result(201, id, balance,
            [db EXCEPT !.fee_payments =
               Insert(@, id, [fee_payment EXCEPT !.balance = balance])])

\* POST /fee-payment, from db.session.add to the response: the row gets its
\* id when it is inserted.
FeePaymentResource_post_commit(db, fee_payment) ==
  LET id == NextId(db.fee_payments)
  IN Result(201, id, fee_payment.balance,
            [db EXCEPT !.fee_payments = Insert(@, id, fee_payment)])

\* A POST /fee-payment that refuses an amount above what is left to pay.
FeePaymentResource_post_refuses_overpayment(db, data) ==
  LET read == FeePaymentResource_post_read(db, data)
  IN IF read.status # 0
     THEN Result(read.status, None, None, db)
     ELSE IF read.fee_payment.balance < 0
     THEN Result(400, None, None, db)
     ELSE FeePaymentResource_post_commit(db, read.fee_payment)

\* POST /fee-payment
FeePaymentResource_post(db, data) ==
  LET read == FeePaymentResource_post_read(db, data)
  IN IF read.status # 0
     THEN Result(read.status, None, None, db)
     ELSE FeePaymentResource_post_commit(db, read.fee_payment)

\* PUT /fee-payment/<fee_payment_id>, up to its first commit (line 998): the
\* columns of the request are assigned and committed.
FeePaymentResource_put_assign(db, fee_payment_id, data) ==
  [db EXCEPT !.fee_payments[fee_payment_id].amount = Get(data, "amount", @)]

\* A recalculation that counts the amount of the updated row twice.
FeePaymentResource_put_recalculate_twice(db, fee_payment_id) ==
  LET fee_payment == db.fee_payments[fee_payment_id]
      student == db.students[fee_payment.student_id]
  IN IF ValueError(db, student)
     THEN Result(400, None, None, db)
     ELSE LET balance == calculate_balance(db, student, fee_payment.amount)
          IN Result(200, fee_payment_id, balance,
                    [db EXCEPT !.fee_payments[fee_payment_id].balance = balance])

\* PUT /fee-payment/<fee_payment_id>, after its first commit: the balance is
\* recalculated from the committed rows, assigned and committed (line 1008).
FeePaymentResource_put_recalculate(db, fee_payment_id) ==
  LET fee_payment == db.fee_payments[fee_payment_id]
      student == db.students[fee_payment.student_id]
  IN IF ValueError(db, student)
     THEN Result(400, None, None, db)
     ELSE LET balance == calculate_balance(db, student, 0)
          IN Result(200, fee_payment_id, balance,
                    [db EXCEPT !.fee_payments[fee_payment_id].balance = balance])

\* PUT /fee-payment/<fee_payment_id>
FeePaymentResource_put(db, fee_payment_id, data) ==
  IF fee_payment_id \notin DOMAIN db.fee_payments
  THEN Result(404, None, None, db)
  ELSE FeePaymentResource_put_recalculate(
         FeePaymentResource_put_assign(db, fee_payment_id, data), fee_payment_id)

\* DELETE /fee-payment/<fee_payment_id>, up to its commit (line 1019).
FeePaymentResource_delete_commit(db, fee_payment_id) ==
  [db EXCEPT !.fee_payments = Delete(@, {fee_payment_id})]

\* DELETE /fee-payment/<fee_payment_id>, after its commit: the balance of the
\* response is calculated from the committed rows.
FeePaymentResource_delete_recalculate(db, student_id) ==
  LET student == db.students[student_id]
  IN IF ValueError(db, student)
     THEN Result(400, None, None, db)
     ELSE Result(200, None, calculate_balance(db, student, 0), db)

\* A DELETE /fee-payment/<fee_payment_id> that calculates the balance of its
\* response before the row is gone.
FeePaymentResource_delete_balance_first(db, fee_payment_id) ==
  IF fee_payment_id \notin DOMAIN db.fee_payments
  THEN Result(404, None, None, db)
  ELSE LET recalculated ==
             FeePaymentResource_delete_recalculate(
               db, db.fee_payments[fee_payment_id].student_id)
       IN Result(recalculated.status, None, recalculated.balance,
                 FeePaymentResource_delete_commit(db, fee_payment_id))

\* DELETE /fee-payment/<fee_payment_id>
FeePaymentResource_delete(db, fee_payment_id) ==
  IF fee_payment_id \notin DOMAIN db.fee_payments
  THEN Result(404, None, None, db)
  ELSE FeePaymentResource_delete_recalculate(
         FeePaymentResource_delete_commit(db, fee_payment_id),
         db.fee_payments[fee_payment_id].student_id)

\* ------------------------------------------------------------------- class
ClassNames == {"Form 1", "Form 2"}

\* POST /classes: class_name is unique, a second class of the same name
\* fails the commit, which is rolled back.
ClassListResource_post(db, data) ==
  IF \E c \in DOMAIN db.classes : db.classes[c].class_name = data["class_name"]
  THEN Result(400, None, None, db)
  ELSE LET id == NextId(db.classes)
       IN Result(201, id, None,
                 [db EXCEPT !.classes =
                    Insert(@, id, [class_name |-> data["class_name"],
                                   teacher_id |-> Get(data, "teacher_id", None)])])

\* Students of a class (Class.students)
StudentsOf(db, class_id) ==
  {s \in DOMAIN db.students : db.students[s].class_id = class_id}

\* A DELETE /classes/<class_id> that leaves the payments of the students
\* that go.
ClassResource_delete_keeps_payments(db, class_id) ==
  IF class_id \notin DOMAIN db.classes
  THEN Result(404, None, None, db)
  ELSE IF FeeStructuresOf(db, class_id) # {}
  THEN Result(400, None, None, db)
  ELSE LET gone == StudentsOf(db, class_id)
       IN Result(200, None, None,
                 [db EXCEPT
                    !.classes = Delete(@, {class_id}),
                    !.students = Delete(@, gone),
                    !.score_grades =
                      Delete(@, {g \in DOMAIN @ : @[g].student_id \in gone})])

\* DELETE /classes/<class_id>.  Class.students cascades the delete to the
\* students and, through them, to their scores and payments.
\* Class.fee_structure has no delete cascade: the ORM sets class_id of the
\* class's fee structure to NULL, the column is NOT NULL, the commit raises
\* IntegrityError and the handler rolls back and answers 400.
ClassResource_delete(db, class_id) ==
  IF class_id \notin DOMAIN db.classes
  THEN Result(404, None, None, db)
  ELSE IF FeeStructuresOf(db, class_id) # {}
  THEN Result(400, None, None, db)
  ELSE LET gone == StudentsOf(db, class_id)
       IN Result(200, None, None,
                 [db EXCEPT
                    !.classes = Delete(@, {class_id}),
                    !.students = Delete(@, gone),
                    !.score_grades =
                      Delete(@, {g \in DOMAIN @ : @[g].student_id \in gone}),
                    !.fee_payments =
                      Delete(@, {q \in DOMAIN @ : @[q].student_id \in gone})])

\* ----------------------------------------------------------------- teacher
\* POST /teachers (names and date given): the subject is the one of the
\* body, if it has one.
TeacherListResource_post(db, data) ==
  LET id == NextId(db.teachers)
  IN Result(201, id, None,
            [db EXCEPT !.teachers =
               Insert(@, id, [subject_id |-> Get(data, "subject_id", None)])])

\* Classes of a teacher (Teacher.classes)
ClassesOf(db, teacher_id) ==
  {c \in DOMAIN db.classes : db.classes[c].teacher_id = teacher_id}

\* db.session.delete of the teachers `gone_teachers`, flushed: Teacher.classes
\* cascades the delete to their classes, Class.students to the students of
\* those, Student.scores and Student.fee_payments to their rows.
DeleteTeachers(db, gone_teachers) ==
  LET gone_classes == UNION {ClassesOf(db, t) : t \in gone_teachers}
      gone == UNION {StudentsOf(db, c) : c \in gone_classes}
  IN [db EXCEPT
        !.teachers = Delete(@, gone_teachers),
        !.classes = Delete(@, gone_classes),
        !.students = Delete(@, gone),
        !.score_grades = Delete(@, {g \in DOMAIN @ : @[g].student_id \in gone}),
        !.fee_payments = Delete(@, {q \in DOMAIN @ : @[q].student_id \in gone})]

\* The flush raises IntegrityError: a class that goes has a fee structure,
\* whose class_id (NOT NULL) the ORM sets to NULL, as in ClassResource.delete.
IntegrityError(db, gone_teachers) ==
  \E t \in gone_teachers : \E c \in ClassesOf(db, t) : FeeStructuresOf(db, c) # {}

\* A DELETE /teachers/<teacher_id> that leaves the students of the classes.
TeacherResource_delete_classes_only(db, teacher_id) ==
  IF teacher_id \notin DOMAIN db.teachers
  THEN Result(404, None, None, db)
  ELSE IF IntegrityError(db, {teacher_id})
  THEN Result(400, None, None, db)
  ELSE Result(200, None, None,
              [db EXCEPT !.teachers = Delete(@, {teacher_id}),
                         !.classes = Delete(@, ClassesOf(db, teacher_id))])

\* DELETE /teachers/<teacher_id>
TeacherResource_delete(db, teacher_id) ==
  IF teacher_id \notin DOMAIN db.teachers
  THEN Result(404, None, None, db)
  ELSE IF IntegrityError(db, {teacher_id})
  THEN Result(400, None, None, db)
  ELSE Result(200, None, None, DeleteTeachers(db, {teacher_id}))

\* ------------------------------------------------------------- score grade
\* ScoreGradeResource.parser.parse_args(): student_id and subject_id are
\* required (the bodies carry them), a missing score is None, a missing
\* max_score is 100.0, and a null in the body stays None.
parse_args(json) ==
  [student_id |-> json["student_id"],
   subject_id |-> json["subject_id"],
   score |-> Get(json, "score", Null),
   max_score |-> Get(json, "max_score", Some(100)),
   term |-> json["term"],
   year |-> json["year"]]

\* POST /score_grades
ScoreGradeListResource_post(db, json) ==
  LET data == parse_args(json)
      id == NextId(db.score_grades)
  IN Result(201, id, None, [db EXCEPT !.score_grades = Insert(@, id, data)])

\* PUT /score_grades/<score_grade_id>
ScoreGradeResource_put(db, score_grade_id, json) ==
  IF score_grade_id \notin DOMAIN db.score_grades
  THEN Result(404, None, None, db)
  ELSE Result(200, score_grade_id, None,
              [db EXCEPT !.score_grades = Insert(@, score_grade_id, parse_args(json))])

\* DELETE /score_grades/<score_grade_id>
ScoreGradeResource_delete(db, score_grade_id) ==
  IF score_grade_id \notin DOMAIN db.score_grades
  THEN Result(404, None, None, db)
  ELSE Result(200, None, None,
              [db EXCEPT !.score_grades = Delete(@, {score_grade_id})])

\* ------------------------------------------------------------------ grades
RECURSIVE GCD(_, _)
GCD(a, b) == IF b = 0 THEN a ELSE GCD(b, a % b)

\* The number num / den (den > 0) in lowest terms, and its comparison with
\* an integer.
Frac(num, den) ==
  LET d == GCD(IF num < 0 THEN -num ELSE num, den)
  IN [num |-> num \div d, den |-> den \div d]
GE(x, threshold) == x.num >= threshold * x.den

\* A calculate_grade whose comparisons are strict.
calculate_grade_strict(percentage) ==
  IF percentage = Null THEN Null
  ELSE LET x == percentage[1]
       IN IF x.num > 80 * x.den THEN Some("A")
          ELSE IF x.num > 75 * x.den THEN Some("A-")
          ELSE IF x.num > 70 * x.den THEN Some("B+")
          ELSE IF x.num > 65 * x.den THEN Some("B")
          ELSE IF x.num > 60 * x.den THEN Some("B-")
          ELSE IF x.num > 55 * x.den THEN Some("C+")
          ELSE IF x.num > 50 * x.den THEN Some("C")
          ELSE IF x.num > 45 * x.den THEN Some("C-")
          ELSE IF x.num > 40 * x.den THEN Some("D+")
          ELSE IF x.num > 35 * x.den THEN Some("D")
          ELSE IF x.num > 30 * x.den THEN Some("D-")
          ELSE Some("E")

\* A calculate_grade with the letters of two bands exchanged.
calculate_grade_swapped(percentage) ==
  IF percentage = Null THEN Null
  ELSE LET x == percentage[1]
       IN IF GE(x, 80) THEN Some("A")
          ELSE IF GE(x, 75) THEN Some("A-")
          ELSE IF GE(x, 70) THEN Some("B+")
          ELSE IF GE(x, 65) THEN Some("B-")
          ELSE IF GE(x, 60) THEN Some("B")
          ELSE IF GE(x, 55) THEN Some("C+")
          ELSE IF GE(x, 50) THEN Some("C")
          ELSE IF GE(x, 45) THEN Some("C-")
          ELSE IF GE(x, 40) THEN Some("D+")
          ELSE IF GE(x, 35) THEN Some("D")
          ELSE IF GE(x, 30) THEN Some("D-")
          ELSE Some("E")

\* StudentReportResource.calculate_grade
calculate_grade(percentage) ==
  IF percentage = Null THEN Null
  ELSE LET x == percentage[1]
       IN IF GE(x, 80) THEN Some("A")
          ELSE IF GE(x, 75) THEN Some("A-")
          ELSE IF GE(x, 70) THEN Some("B+")
          ELSE IF GE(x, 65) THEN Some("B")
          ELSE IF GE(x, 60) THEN Some("B-")
          ELSE IF GE(x, 55) THEN Some("C+")
          ELSE IF GE(x, 50) THEN Some("C")
          ELSE IF GE(x, 45) THEN Some("C-")
          ELSE IF GE(x, 40) THEN Some("D+")
          ELSE IF GE(x, 35) THEN Some("D")
          ELSE IF GE(x, 30) THEN Some("D-")
          ELSE Some("E")

\* ----------------------------------------------------------------- subject
SubjectNames == {"Maths"}

\* POST /subjects: subject_name is unique, a second subject of the same name
\* fails the commit, which is rolled back.
SubjectListResource_post(db, data) ==
  IF \E u \in DOMAIN db.subjects : db.subjects[u].subject_name = data["subject_name"]
  THEN Result(400, None, None, db)
  ELSE LET id == NextId(db.subjects)
       IN Result(201, id, None,
                 [db EXCEPT !.subjects =
                    Insert(@, id, [subject_name |-> data["subject_name"]])])

\* Teachers of a subject (Subject.teachers)
TeachersOf(db, subject_id) ==
  {t \in DOMAIN db.teachers : db.teachers[t].subject_id = subject_id}

\* DELETE /subjects/<subject_id>: Subject.score_grades cascades the delete
\* to the scores in the subject and Subject.teachers to its teachers.
SubjectResource_delete(db, subject_id) ==
  IF subject_id \notin DOMAIN db.subjects
  THEN Result(404, None, None, db)
  ELSE IF IntegrityError(db, TeachersOf(db, subject_id))
  THEN Result(400, None, None, db)
  ELSE LET left == DeleteTeachers(db, TeachersOf(db, subject_id))
       IN Result(200, None, None,
                 [left EXCEPT
                    !.subjects = Delete(@, {subject_id}),
                    !.score_grades =
                      Delete(@, {g \in DOMAIN @ : @[g].subject_id = subject_id})])

\* -------------------------------------------------------------------- auth
\* bcrypt.generate_password_hash / bcrypt.check_password_hash: the hash is
\* not the password, and a password checks against the hash made from it and
\* against no other.
generate_password_hash(password) == <<"$2b$", password>>
check_password_hash(pw_hash, password) == pw_hash = generate_password_hash(password)

\* The first user of a username (User.query.filter_by(username=..).first()),
\* None when there is none.
UserNamed(db, username) ==
  LET found == {u \in DOMAIN db.users : db.users[u].username = username}
  IN IF found = {} THEN None ELSE first(found)

\* A registration that does not look for the username.
Register_post_no_conflict(db, data) ==
  LET username == Get(data, "username", "")
      password == Get(data, "password", "")
      role == Get(data, "role", "agent")
      id == NextId(db.users)
  IN IF username = "" \/ password = ""
     THEN Result(400, None, None, db)
     ELSE Result(201, None, None,
                 [db EXCEPT !.users =
                    Insert(@, id, [username |-> username,
                                   password_hash |-> generate_password_hash(password),
                                   role |-> role])])

\* POST /auth/register.  data.get of a missing key is None, which `not`
\* takes as it takes the empty string: both are "" here.
Register_post(db, data) ==
  LET username == Get(data, "username", "")
      password == Get(data, "password", "")
      role == Get(data, "role", "agent")
      id == NextId(db.users)
  IN IF username = "" \/ password = ""
     THEN Result(400, None, None, db)
     ELSE IF UserNamed(db, username) # None
     THEN Result(409, None, None, db)
     ELSE Result(201, None, None,
                 [db EXCEPT !.users =
                    Insert(@, id, [username |-> username,
                                   password_hash |-> generate_password_hash(password),
                                   role |-> role])])

\* flask_login keeps the id of the user as a string in the session
\* (UserMixin.get_id) and load_user reads it back with int().
str(id) == <<"str", id>>
int(user_id) == user_id[2]

\* load_user, and current_user as flask_login builds it from the session:
\* the id of the user the session names, None for the anonymous user.
load_user(db, user_id) ==
  IF int(user_id) \in DOMAIN db.users THEN int(user_id) ELSE None
current_user(db, sess) ==
  IF "_user_id" \in DOMAIN sess THEN load_user(db, sess["_user_id"]) ELSE None

\* @login_required lets the request through when current_user is
\* authenticated; otherwise LoginManager.unauthorized() answers with the
\* redirect to login_view (302).
is_authenticated(db, sess) == current_user(db, sess) # None

\* What a handler that works on the session returns.
SessionResult(status, sess) == [status |-> status, session |-> sess]

\* login_user(user) / logout_user()
login_user(sess, id) ==
  [k \in DOMAIN sess \cup {"_user_id"} |-> IF k = "_user_id" THEN str(id) ELSE sess[k]]
logout_user(sess) == [k \in DOMAIN sess \ {"_user_id"} |-> sess[k]]

\* A login that does not check the password.
Login_post_any_password(db, sess, data) ==
  LET username == Get(data, "username", "")
      password == Get(data, "password", "")
      user == UserNamed(db, username)
  IN IF username = "" \/ password = ""
     THEN SessionResult(400, sess)
     ELSE IF user = None
     THEN SessionResult(401, sess)
     ELSE SessionResult(200, login_user(sess, user))

\* POST /auth/login
Login_post(db, sess, data) ==
  LET username == Get(data, "username", "")
      password == Get(data, "password", "")
      user == UserNamed(db, username)
  IN IF username = "" \/ password = ""
     THEN SessionResult(400, sess)
     ELSE IF user = None
             \/ ~check_password_hash(db.users[user].password_hash, password)
     THEN SessionResult(401, sess)
     ELSE SessionResult(200, login_user(sess, user))

\* POST /auth/logout
Logout_post(db, sess) ==
  IF ~is_authenticated(db, sess)
  THEN SessionResult(302, sess)
  ELSE SessionResult(200, logout_user(sess))

\* GET /protected
ProtectedResource_get(db, sess) ==
  IF ~is_authenticated(db, sess)
  THEN SessionResult(302, sess)
  ELSE SessionResult(200, sess)

\* ------------------------------------------------------------------ report
\* The rows the query of the report returns: those of the student, term and
\* year that the join finds a subject for.
ReportScores(db, student_id, term, year) ==
  {g \in DOMAIN db.score_grades :
     /\ db.score_grades[g].student_id = student_id
     /\ db.score_grades[g].term = term
     /\ db.score_grades[g].year = year
     /\ db.score_grades[g].subject_id \in DOMAIN db.subjects}

\* (score / max_score) * 100
Percentage(score_grade) == Frac(score_grade.score[1] * 100, score_grade.max_score[1])

RECURSIVE TotalPercentage(_, _)
\* total_percentage += percentage, over the rows `ids`
TotalPercentage(scores, ids) ==
  IF ids = {} THEN Frac(0, 1)
  ELSE LET g == CHOOSE x \in ids : TRUE
           rest == TotalPercentage(scores, ids \ {g})
           percentage == Percentage(scores[g])
       IN Frac(rest.num * percentage.den + percentage.num * rest.den,
               rest.den * percentage.den)

\* What GET /report/... answers: the status and, with 200, the body.
Report(status, average_percentage, average_grade, report) ==
  [status |-> status, average_percentage |-> average_percentage,
   average_grade |-> average_grade, subjects |-> report]

\* A report whose average divides by the number of all listed rows.
StudentReportResource_get_counts_all(db, student_id, term, year) ==
  LET scores == ReportScores(db, student_id, term, year)
      graded == {g \in scores : db.score_grades[g].score # Null}
  IN IF scores = {}
     THEN Report(404, Null, Null, EmptyTable)
     ELSE IF \E g \in graded : db.score_grades[g].max_score = Null
     THEN Report(500, Null, Null, EmptyTable)
     ELSE LET valid == {g \in graded : db.score_grades[g].max_score[1] > 0}
              report ==
                [g \in scores |->
                   [subject_name |-> db.subjects[db.score_grades[g].subject_id].subject_name,
                    score |-> db.score_grades[g].score,
                    max_score |-> db.score_grades[g].max_score,
                    grade |-> IF g \in valid
                              THEN calculate_grade(Some(Percentage(db.score_grades[g])))
                              ELSE Null]]
              total_percentage == TotalPercentage(db.score_grades, valid)
              count == Cardinality(scores)
              average_percentage ==
                IF valid # {}
                THEN Some(Frac(total_percentage.num, total_percentage.den * count))
                ELSE Null
          IN Report(200, average_percentage, calculate_grade(average_percentage), report)

\* GET /report/<student_id>/<term>/<year>.  The subjects list has an entry
\* per row, here under the row's id.  A row with a score and max_score None
\* makes `max_score > 0` raise TypeError: the request ends in 500.
StudentReportResource_get(db, student_id, term, year) ==
  LET scores == ReportScores(db, student_id, term, year)
      graded == {g \in scores : db.score_grades[g].score # Null}
  IN IF scores = {}
     THEN Report(404, Null, Null, EmptyTable)
     ELSE IF \E g \in graded : db.score_grades[g].max_score = Null
     THEN Report(500, Null, Null, EmptyTable)
     ELSE LET valid == {g \in graded : db.score_grades[g].max_score[1] > 0}
              report ==
                [g \in scores |->
                   [subject_name |-> db.subjects[db.score_grades[g].subject_id].subject_name,
                    score |-> db.score_grades[g].score,
                    max_score |-> db.score_grades[g].max_score,
                    grade |-> IF g \in valid
                              THEN calculate_grade(Some(Percentage(db.score_grades[g])))
                              ELSE Null]]
              total_percentage == TotalPercentage(db.score_grades, valid)
              count == Cardinality(valid)
              average_percentage ==
                IF count > 0
                THEN Some(Frac(total_percentage.num, total_percentage.den * count))
                ELSE Null
          IN Report(200, average_percentage, calculate_grade(average_percentage), report)

\* ---------------------------------------------------------- request bodies
FeeStructurePostBodies == {[class_id |-> c] @@ FullFees : c \in ClassIds}
FeeStructurePutBodies == {NoBoarding, FullFees} \cup {[class_id |-> c] : c \in ClassIds}
\* For SpecFees: no component, one component, all components.
FeeBodies ==
  {NoKeys, FullFees} \cup {[k \in {key} |-> OtherFees[k]] : key \in DOMAIN OtherFees}
ManyFeeStructurePostBodies == {[class_id |-> c] @@ fees : c \in ClassIds, fees \in FeeBodies}
ManyFeeStructurePutBodies == FeeBodies \cup {[class_id |-> c] : c \in ClassIds}
PickupLocationBodies == {[transport_fee |-> t] : t \in TransportFees}
StudentPostBodies ==
  {[class_id |-> c] : c \in ClassIds}
    \cup {[class_id |-> c, pickup_location_id |-> l] :
            c \in ClassIds, l \in PickupLocationIds}
StudentClassBodies == {[class_id |-> c] : c \in ClassIds}
StudentPickupBodies ==
  {[pickup_location_id |-> l] : l \in PickupLocationIds \cup {None}}
FeePaymentPostBodies(student_ids) ==
  {[student_id |-> s, amount |-> a] : s \in student_ids, a \in Amounts}
\* For SpecOverpay: amounts of which one, or two together, exceed every
\* grand total.
LargeAmounts == {7, 13}
OverpayBodies ==
  {[student_id |-> s, amount |-> a] : s \in 1..MaxStudents, a \in LargeAmounts}
FeePaymentPutBodies == {[amount |-> a] : a \in Amounts} \cup {NoKeys}
\* PUT bodies that name another student.
FeePaymentMoveBodies ==
  {[amount |-> a, student_id |-> s] : a \in Amounts, s \in 1..ManyStudents}

ClassBodies == {[class_name |-> n] : n \in ClassNames}
\* For SpecTeacher: teachers with and without a subject, classes with and
\* without a teacher.
TeacherBodies == {[subject_id |-> u] : u \in 1..MaxSubjects} \cup {NoKeys}
TeacherClassBodies ==
  ClassBodies \cup {[class_name |-> n, teacher_id |-> t] :
                      n \in ClassNames, t \in 1..MaxTeachers}
\* For SpecSchool: a score of 78 out of the default max_score, in one term.
SchoolScoreBodies ==
  {[student_id |-> s, subject_id |-> 1, score |-> Some(78),
    term |-> "Term 1", year |-> 2024] : s \in 1..ManyStudents}

SubjectBodies == {[subject_name |-> n] : n \in SubjectNames}
\* For SpecAuth: two usernames and two passwords, each of them also missing
\* or empty, with and without a role.
Usernames == {"amina", "brian"}
Passwords == {"pw1", "pw2"}
Credentials ==
  {[username |-> u, password |-> p] : u \in Usernames \cup {""}, p \in Passwords \cup {""}}
    \cup {[username |-> u] : u \in Usernames}
    \cup {[password |-> p] : p \in Passwords}
    \cup {NoKeys}
RegisterBodies ==
  Credentials \cup {[username |-> u, password |-> p, role |-> "admin"] :
                      u \in Usernames, p \in Passwords}
LoginBodies == Credentials
\* For SpecReport: a student, term and year, and the rows that differ from
\* them in the student, in the term or in the year; no score, a score out
\* of the default max_score, and a score out of a max_score of 50, 0 or null.
ReportKeys ==
  {<<1, "Term 1", 2024>>, <<2, "Term 1", 2024>>,
   <<1, "Term 2", 2024>>, <<1, "Term 1", 2025>>}
ReportMarks ==
  {NoKeys, [score |-> Some(78)], [score |-> Some(52)],
   [score |-> Some(52), max_score |-> Some(50)],
   [score |-> Some(78), max_score |-> Some(0)],
   [score |-> Some(78), max_score |-> Null]}
ReportScoreBodies ==
  {[student_id |-> k[1], subject_id |-> 1, term |-> k[2], year |-> k[3]] @@ marks :
     k \in ReportKeys, marks \in ReportMarks}

\* JSON objects given to calculate_total_fee: up to MaxItems members with
\* different keys, in every order, a component or class_id each, and all
\* seven in two orders.
ItemValues ==
  [tuition_fee |-> 1, books_fee |-> 2, miscellaneous_fee |-> 4, boarding_fee |-> 8,
   prize_giving_fee |-> 16, exam_fee |-> 32, class_id |-> 64]
AllItems ==
  <<<<"class_id", 64>>, <<"tuition_fee", 1>>, <<"books_fee", 2>>,
    <<"miscellaneous_fee", 4>>, <<"boarding_fee", 8>>, <<"prize_giving_fee", 16>>,
    <<"exam_fee", 32>>>>
FeeItems ==
  {items \in UNION {[1..n -> {<<k, ItemValues[k]>> : k \in DOMAIN ItemValues}] :
                      n \in 0..MaxItems} :
     \A i, j \in DOMAIN items : items[i][1] = items[j][1] => i = j}
    \cup {AllItems, [i \in 1..Len(AllItems) |-> AllItems[Len(AllItems) + 1 - i]]}

\* Percentages given to calculate_grade: at, half a point under and a point
\* under every threshold, under 0, 0, 100 and over 100, and None.
Thresholds == {30, 35, 40, 45, 50, 55, 60, 65, 70, 75, 80}
Percentages ==
  {Some(Frac(2 * t - k, 2)) : t \in Thresholds, k \in {0, 1, 2}}
    \cup {Some(Frac(n, 1)) : n \in {-5, 0, 100, 150}}
    \cup {Null}

\* ------------------------------------------------------------ specification
\* db.session.commit(): `db` becomes the committed database.
Install(db) ==
  /\ students' = db.students
  /\ fee_structures' = db.fee_structures
  /\ pickup_locations' = db.pickup_locations
  /\ fee_payments' = db.fee_payments
  /\ classes' = db.classes
  /\ subjects' = db.subjects
  /\ score_grades' = db.score_grades
  /\ teachers' = db.teachers
  /\ users' = db.users

\* A handler run from its start to its response: the database of its result
\* is the committed one and nothing of the request stays in flight.
Commit(result) == Install(result.db) /\ UNCHANGED inflight

\* One action per route: a client sends a request, the handler runs from its
\* start to its response.  `max` bounds the rows of the table a POST adds to,
\* `ids` the primary keys the clients ask for.
POST_fee_structure(max, bodies) ==
  \E data \in bodies :
    /\ NextId(fee_structures) <= max
    /\ Commit(FeeStructureResource_post(DB, data))

PUT_fee_structure(ids, bodies) ==
  \E id \in ids, data \in bodies :
    Commit(FeeStructureResource_put(DB, id, data))

DELETE_fee_structure(ids) ==
  \E id \in ids : Commit(FeeStructureResource_delete(DB, id))

POST_pickup_location(max) ==
  \E data \in PickupLocationBodies :
    /\ NextId(pickup_locations) <= max
    /\ Commit(PickupLocationResource_post(DB, data))

PUT_pickup_location(ids) ==
  \E id \in ids, data \in PickupLocationBodies :
    Commit(PickupLocationResource_put(DB, id, data))

DELETE_pickup_location(ids) ==
  \E id \in ids : Commit(PickupLocationResource_delete(DB, id))

POST_students(max) ==
  \E data \in StudentPostBodies :
    /\ NextId(students) <= max
    /\ Commit(StudentListResource_post(DB, data))

PUT_students(ids, bodies) ==
  \E id \in ids, data \in bodies : Commit(StudentResource_put(DB, id, data))

DELETE_students(ids) ==
  \E id \in ids : Commit(StudentResource_delete(DB, id))

POST_fee_payment(max, bodies) ==
  \E data \in bodies :
    /\ NextId(fee_payments) <= max
    /\ Commit(FeePaymentResource_post(DB, data))

PUT_fee_payment(ids) ==
  \E id \in ids, data \in FeePaymentPutBodies :
    Commit(FeePaymentResource_put(DB, id, data))

DELETE_fee_payment(ids) ==
  \E id \in ids : Commit(FeePaymentResource_delete(DB, id))

POST_classes(max, bodies) ==
  \E data \in bodies :
    /\ NextId(classes) <= max
    /\ Commit(ClassListResource_post(DB, data))

DELETE_classes(ids) ==
  \E id \in ids : Commit(ClassResource_delete(DB, id))

POST_score_grades(max, bodies) ==
  \E json \in bodies :
    /\ NextId(score_grades) <= max
    /\ Commit(ScoreGradeListResource_post(DB, json))

PUT_score_grades(ids, bodies) ==
  \E id \in ids, json \in bodies : Commit(ScoreGradeResource_put(DB, id, json))

DELETE_score_grades(ids) ==
  \E id \in ids : Commit(ScoreGradeResource_delete(DB, id))

POST_subjects(max) ==
  \E data \in SubjectBodies :
    /\ NextId(subjects) <= max
    /\ Commit(SubjectListResource_post(DB, data))

DELETE_subjects(ids) ==
  \E id \in ids : Commit(SubjectResource_delete(DB, id))

\* ------------------------------------------------------------ bookkeeping
\* What calculate_grand_total reads for a student.
GrandTotalInputs(db, student) ==
  <<student,
    [f \in FeeStructuresOf(db, student.class_id) |-> db.fee_structures[f]],
    IF student.pickup_location_id \in DOMAIN db.pickup_locations
    THEN {db.pickup_locations[student.pickup_location_id]} ELSE {}>>

\* posts_only is a history variable: the students for which, since they last
\* had no payment, no payment row of theirs was updated or deleted and nothing
\* calculate_grand_total reads for them has changed.
Track ==
  /\ posts_only' =
    {s \in DOMAIN students' :
       \/ PaymentsOf(fee_payments', s) = {}
       \/ /\ s \in posts_only
          /\ s \in DOMAIN students
          /\ GrandTotalInputs(DB', students'[s]) = GrandTotalInputs(DB, students[s])
          /\ \A p \in PaymentsOf(fee_payments, s) :
               p \in DOMAIN fee_payments' /\ fee_payments'[p] = fee_payments[p]}
  /\ UNCHANGED <<session, logged_in>>

\* A request that records no history and, as every route but /auth/login
\* and /auth/logout, leaves the session of its client as it was.
Untracked == UNCHANGED <<posts_only, session, logged_in>>

\* Spec: one request at a time over every input of the fee accounting, for
\* one student.
Next ==
  \/ POST_fee_structure(MaxFeeStructures, FeeStructurePostBodies) /\ Untracked
  \/ PUT_fee_structure(FeeStructureIds, FeeStructurePutBodies) /\ Untracked
  \/ DELETE_fee_structure(FeeStructureIds) /\ Untracked
  \/ POST_pickup_location(MaxPickupLocations) /\ Untracked
  \/ PUT_pickup_location(PickupLocationIds) /\ Untracked
  \/ DELETE_pickup_location(PickupLocationIds) /\ Untracked
  \/ POST_students(MaxStudents) /\ Untracked
  \/ PUT_students(1..MaxStudents, StudentClassBodies \cup StudentPickupBodies) /\ Untracked
  \/ DELETE_students(1..MaxStudents) /\ Untracked
  \/ POST_fee_payment(MaxPayments, FeePaymentPostBodies(1..MaxStudents)) /\ Untracked
  \/ PUT_fee_payment(PaymentIds) /\ Untracked
  \/ DELETE_fee_payment(PaymentIds) /\ Untracked

Spec == Init /\ [][Next]_vars

\* SpecStudents: one request at a time for several students, without pickup
\* locations, posts_only kept.
NextStudents ==
  \/ POST_fee_structure(MaxFeeStructures, FeeStructurePostBodies) /\ Track
  \/ PUT_fee_structure(FeeStructureIds, FeeStructurePutBodies) /\ Track
  \/ DELETE_fee_structure(FeeStructureIds) /\ Track
  \/ POST_students(ManyStudents) /\ Track
  \/ PUT_students(1..ManyStudents, StudentClassBodies) /\ Track
  \/ DELETE_students(1..ManyStudents) /\ Track
  \/ POST_fee_payment(MaxPayments, FeePaymentPostBodies(1..ManyStudents)) /\ Track
  \/ PUT_fee_payment(PaymentIds) /\ Track
  \/ DELETE_fee_payment(PaymentIds) /\ Track

SpecStudents == Init /\ [][NextStudents]_vars

\* SpecFees: the fee structure routes alone, over bodies that carry no, one or
\* all components.
NextFees ==
  \/ POST_fee_structure(ManyFeeStructures, ManyFeeStructurePostBodies) /\ Untracked
  \/ PUT_fee_structure(1..ManyFeeStructures, ManyFeeStructurePutBodies) /\ Untracked
  \/ DELETE_fee_structure(1..ManyFeeStructures) /\ Untracked

SpecFees == Init /\ [][NextFees]_vars

\* SpecGrade: the workers apply calculate_grade to a percentage and hold
\* what it returned.
CalculateGrade(w) ==
  \E percentage \in Percentages :
    /\ inflight' = [inflight EXCEPT
                      ![w] = [op |-> "calculate_grade", percentage |-> percentage,
                              grade |-> calculate_grade(percentage)]]
    /\ Install(DB)

NextGrade == \E w \in Workers : CalculateGrade(w) /\ Untracked

SpecGrade == Init /\ [][NextGrade]_vars

\* SpecReport: subjects and score grades, one request at a time; the
\* properties read the report of the committed rows.
NextReport ==
  \/ POST_subjects(MaxSubjects) /\ Untracked
  \/ DELETE_subjects(1..MaxSubjects) /\ Untracked
  \/ POST_score_grades(MaxScoreGrades, ReportScoreBodies) /\ Untracked
  \/ PUT_score_grades(1..MaxScoreGrades, ReportScoreBodies) /\ Untracked
  \/ DELETE_score_grades(1..MaxScoreGrades) /\ Untracked

SpecReport == Init /\ [][NextReport]_vars

\* SpecTotalFee: a worker, the others serving nothing, applies
\* calculate_total_fee to the dict of a JSON object and holds what it returned.
CalculateTotalFee(w) ==
  \E items \in FeeItems :
    /\ \A v \in Workers \ {w} : inflight[v] = Idle
    /\ inflight' = [inflight EXCEPT
                      ![w] = [op |-> "calculate_total_fee", items |-> items,
                              total_fee |-> calculate_total_fee(dict(items))]]
    /\ Install(DB)

NextTotalFee == \E w \in Workers : CalculateTotalFee(w) /\ Untracked

SpecTotalFee == Init /\ [][NextTotalFee]_vars

\* SpecSchool: classes with their students, fee structure, scores and
\* payments, one request at a time.
NextSchool ==
  \/ POST_classes(MaxClasses, ClassBodies) /\ Untracked
  \/ DELETE_classes(ClassIds) /\ Untracked
  \/ POST_students(ManyStudents) /\ Untracked
  \/ DELETE_students(1..ManyStudents) /\ Untracked
  \/ POST_fee_structure(MaxFeeStructures, FeeStructurePostBodies) /\ Untracked
  \/ DELETE_fee_structure(FeeStructureIds) /\ Untracked
  \/ POST_fee_payment(MaxPayments, FeePaymentPostBodies(1..ManyStudents)) /\ Untracked
  \/ POST_score_grades(MaxScoreGrades, SchoolScoreBodies) /\ Untracked

SpecSchool == Init /\ [][NextSchool]_vars

\* SpecConc: the fee payment routes served by several workers at once.  A
\* handler takes one step up to each db.session.commit() and one step from
\* its last commit to its response; between the steps of one request the
\* other workers run.  The handlers with one commit at their end are one step.
\* A POST in flight holds the FeePayment object it built and the total_paid
\* that calculate_balance read for it.
POST_fee_payment_read(w) ==
  \E data \in FeePaymentPostBodies(1..MaxStudents) :
    /\ inflight[w] = Idle
    /\ LET read == FeePaymentResource_post_read(DB, data)
       IN IF read.status # 0
          THEN UNCHANGED inflight
          ELSE inflight' = [inflight EXCEPT
                              ![w] = [op |-> "post", fee_payment |-> read.fee_payment,
                                      total_paid |-> SumOver(fee_payments,
                                                       PaymentsOf(fee_payments, data["student_id"]),
                                                       "amount")]]
    /\ Install(DB)

POST_fee_payment_commit(w) ==
  /\ inflight[w].op = "post"
  /\ NextId(fee_payments) <= MaxPayments
  /\ Install(FeePaymentResource_post_commit(DB, inflight[w].fee_payment).db)
  /\ inflight' = [inflight EXCEPT ![w] = Idle]

PUT_fee_payment_assign(w) ==
  \E id \in PaymentIds, data \in FeePaymentPutBodies :
    /\ inflight[w] = Idle
    /\ IF id \notin DOMAIN fee_payments
       THEN Install(DB) /\ UNCHANGED inflight
       ELSE /\ Install(FeePaymentResource_put_assign(DB, id, data))
            /\ inflight' = [inflight EXCEPT
                              ![w] = [op |-> "put", fee_payment_id |-> id,
                                      found |-> fee_payments[id]]]

\* When another request has deleted the row meanwhile, loading
\* fee_payment.student fails and nothing more is committed.
PUT_fee_payment_recalculate(w) ==
  /\ inflight[w].op = "put"
  /\ IF inflight[w].fee_payment_id \in DOMAIN fee_payments
     THEN Install(FeePaymentResource_put_recalculate(DB, inflight[w].fee_payment_id).db)
     ELSE Install(DB)
  /\ inflight' = [inflight EXCEPT ![w] = Idle]

DELETE_fee_payment_commit(w) ==
  \E id \in PaymentIds :
    /\ inflight[w] = Idle
    /\ IF id \notin DOMAIN fee_payments
       THEN Install(DB) /\ UNCHANGED inflight
       ELSE /\ Install(FeePaymentResource_delete_commit(DB, id))
            /\ inflight' = [inflight EXCEPT
                              ![w] = [op |-> "delete",
                                      student_id |-> fee_payments[id].student_id]]

DELETE_fee_payment_recalculate(w) ==
  /\ inflight[w].op = "delete"
  /\ Install(DB)
  /\ inflight' = [inflight EXCEPT ![w] = Idle]

NextConc ==
  \/ POST_fee_structure(MaxFeeStructures, FeeStructurePostBodies) /\ Untracked
  \/ DELETE_fee_structure(FeeStructureIds) /\ Untracked
  \/ POST_students(MaxStudents) /\ Untracked
  \/ \E w \in Workers : POST_fee_payment_read(w) /\ Untracked
  \/ \E w \in Workers : POST_fee_payment_commit(w) /\ Untracked
  \/ \E w \in Workers : PUT_fee_payment_assign(w) /\ Untracked
  \/ \E w \in Workers : PUT_fee_payment_recalculate(w) /\ Untracked
  \/ \E w \in Workers : DELETE_fee_payment_commit(w) /\ Untracked
  \/ \E w \in Workers : DELETE_fee_payment_recalculate(w) /\ Untracked

SpecConc == Init /\ [][NextConc]_vars

\* SpecOverpay: payments of large amounts for one student, over every input
\* of the grand total.
NextOverpay ==
  \/ POST_fee_structure(MaxFeeStructures, FeeStructurePostBodies) /\ Untracked
  \/ DELETE_fee_structure(FeeStructureIds) /\ Untracked
  \/ POST_pickup_location(MaxPickupLocations) /\ Untracked
  \/ POST_students(MaxStudents) /\ Untracked
  \/ PUT_students(1..MaxStudents, StudentPickupBodies) /\ Untracked
  \/ POST_fee_payment(MaxPayments, OverpayBodies) /\ Untracked
  \/ DELETE_fee_payment(PaymentIds) /\ Untracked

SpecOverpay == Init /\ [][NextOverpay]_vars

\* SpecTeacher: every request that deletes students, directly or through
\* their class, the teacher of the class or the subject of the teacher, with
\* the payments and scores that go with them.
POST_teachers(max) ==
  \E data \in TeacherBodies :
    /\ NextId(teachers) <= max
    /\ Commit(TeacherListResource_post(DB, data))

DELETE_teachers(ids) ==
  \E id \in ids : Commit(TeacherResource_delete(DB, id))

NextTeacher ==
  \/ POST_subjects(MaxSubjects) /\ Untracked
  \/ DELETE_subjects(1..MaxSubjects) /\ Untracked
  \/ POST_teachers(MaxTeachers) /\ Untracked
  \/ DELETE_teachers(1..MaxTeachers) /\ Untracked
  \/ POST_classes(MaxClasses, TeacherClassBodies) /\ Untracked
  \/ DELETE_classes(ClassIds) /\ Untracked
  \/ POST_students(ManyStudents) /\ Untracked
  \/ DELETE_students(1..ManyStudents) /\ Untracked
  \/ POST_fee_structure(MaxFeeStructures, FeeStructurePostBodies) /\ Untracked
  \/ DELETE_fee_structure(FeeStructureIds) /\ Untracked
  \/ POST_fee_payment(FewPayments, FeePaymentPostBodies(1..ManyStudents)) /\ Untracked
  \/ PUT_fee_payment(1..FewPayments) /\ Untracked
  \/ DELETE_fee_payment(1..FewPayments) /\ Untracked
  \/ POST_score_grades(FewScoreGrades, SchoolScoreBodies) /\ Untracked

SpecTeacher == Init /\ [][NextTeacher]_vars

\* SpecAuth: registration, and the sessions of the clients: login, logout
\* and the protected route, next to a route of the entity API.
POST_auth_register(max) ==
  \E data \in RegisterBodies :
    /\ NextId(users) <= max
    /\ Commit(Register_post(DB, data))

\* logged_in is a history variable: the clients in whose session a login has
\* succeeded and no logout has succeeded since.
POST_auth_login(c) ==
  \E data \in LoginBodies :
    LET response == Login_post(DB, session[c], data)
    IN /\ session' = [session EXCEPT ![c] = response.session]
       /\ logged_in' = IF response.status = 200 THEN logged_in \cup {c} ELSE logged_in
       /\ Install(DB)
       /\ UNCHANGED <<inflight, posts_only>>

POST_auth_logout(c) ==
  LET response == Logout_post(DB, session[c])
  IN /\ session' = [session EXCEPT ![c] = response.session]
     /\ logged_in' = IF response.status = 200 THEN logged_in \ {c} ELSE logged_in
     /\ Install(DB)
     /\ UNCHANGED <<inflight, posts_only>>

GET_protected(c) ==
  LET response == ProtectedResource_get(DB, session[c])
  IN /\ session' = [session EXCEPT ![c] = response.session]
     /\ Install(DB)
     /\ UNCHANGED <<inflight, posts_only, logged_in>>

NextAuth ==
  \/ POST_auth_register(MaxUsers) /\ Untracked
  \/ \E c \in Clients : POST_auth_login(c)
  \/ \E c \in Clients : POST_auth_logout(c)
  \/ \E c \in Clients : GET_protected(c)
  \/ POST_students(MaxStudents) /\ Untracked
  \/ DELETE_students(1..MaxStudents) /\ Untracked

SpecAuth == Init /\ [][NextAuth]_vars

\* =================================================================== claims
\* The six components of a fee structure row, added up.
Components(fee_structure) ==
  fee_structure.tuition_fee + fee_structure.books_fee
  + fee_structure.miscellaneous_fee + fee_structure.boarding_fee
  + fee_structure.prize_giving_fee + fee_structure.exam_fee

\* The sum of the amounts of the stored payments of a student.
Paid(student_id) ==
  SumOver(fee_payments, PaymentsOf(fee_payments, student_id), "amount")

HasFeeStructure(student_id) ==
  \E f \in DOMAIN fee_structures :
    fee_structures[f].class_id = students[student_id].class_id

\* C1: for every existing student whose class has a fee structure and every
\* amount a, POST /fee-payment succeeds and stores one new row, of that
\* student and amount, whose balance is grand_total(student) minus (the sum
\* of the amounts already stored for that student, plus a); with no stored
\* payment and a = 0 the balance is grand_total(student).
C1_PostStoresBalance ==
  \A data \in FeePaymentPostBodies(DOMAIN students) :
    HasFeeStructure(data.student_id) =>
      LET r == FeePaymentResource_post(DB, data)
          grand_total == calculate_grand_total(DB, students[data.student_id])
      IN /\ r.status = 201
         /\ r.id \notin DOMAIN fee_payments
         /\ DOMAIN r.db.fee_payments = DOMAIN fee_payments \cup {r.id}
         /\ \A p \in DOMAIN fee_payments : r.db.fee_payments[p] = fee_payments[p]
         /\ r.db.fee_payments[r.id].student_id = data.student_id
         /\ r.db.fee_payments[r.id].amount = data.amount
         /\ r.db.fee_payments[r.id].balance
              = grand_total - (Paid(data.student_id) + data.amount)
         /\ r.balance = r.db.fee_payments[r.id].balance
         /\ (Paid(data.student_id) = 0 /\ data.amount = 0
               => r.db.fee_payments[r.id].balance = grand_total)

\* C1 witness: two students have a payment of 3 each; the later row is stored
\* with its own student's total minus 3, the other student's payment left out.
C1_Witness ==
  \E s, t \in DOMAIN students, p, q \in DOMAIN fee_payments :
    /\ s # t /\ p < q
    /\ fee_payments[p].student_id = t /\ fee_payments[q].student_id = s
    /\ fee_payments[p].amount = 3 /\ fee_payments[q].amount = 3
    /\ HasFeeStructure(s)
    /\ fee_payments[q].balance = calculate_grand_total(DB, students[s]) - 3

\* C2: while a student is in posts_only (only POST /fee-payment has touched
\* its payments since it had none, and its fee structure, class and pickup
\* location are unchanged), the k-th row of the student holds the balance
\* grand_total - (a1 + ... + ak).
C2_RunningBalance ==
  \A s \in posts_only :
    \A p \in PaymentsOf(fee_payments, s) :
      /\ HasFeeStructure(s)
      /\ fee_payments[p].balance
           = calculate_grand_total(DB, students[s])
             - SumOver(fee_payments,
                       {q \in PaymentsOf(fee_payments, s) : q <= p}, "amount")

\* C2 witness: total 10, payments of 3 and 3, balances 7 and 4.
C2_Witness ==
  \E s \in posts_only : \E p, q \in PaymentsOf(fee_payments, s) :
    /\ p < q
    /\ calculate_grand_total(DB, students[s]) = 10
    /\ fee_payments[p].amount = 3 /\ fee_payments[p].balance = 7
    /\ fee_payments[q].amount = 3 /\ fee_payments[q].balance = 4

\* C3: POST /fee-payment for an existing student whose class has no fee
\* structure answers 400 and leaves the database as it was.
C3_PostWithoutFeeStructure ==
  \A data \in FeePaymentPostBodies(DOMAIN students) :
    ~ HasFeeStructure(data.student_id) =>
      LET r == FeePaymentResource_post(DB, data)
      IN r.status = 400 /\ r.db = DB

\* C3 witness: a student with a stored payment is in a class without fee
\* structure, and there is room for another payment row.
C3_Witness ==
  \E s \in DOMAIN students :
    /\ ~ HasFeeStructure(s)
    /\ PaymentsOf(fee_payments, s) # {}
    /\ NextId(fee_payments) <= MaxPayments

\* C4, as claimed: a PUT /fee-payment/<id> that answers 400 leaves the
\* payment row as it was.
C4_PutErrorLeavesRow ==
  \A id \in DOMAIN fee_payments, data \in FeePaymentPutBodies :
    LET r == FeePaymentResource_put(DB, id, data)
    IN r.status = 400 => r.db.fee_payments[id] = fee_payments[id]

\* C5, as claimed: a DELETE /fee-payment/<id> that answers 400 leaves the
\* payment row in the table.
C5_DeleteErrorKeepsRow ==
  \A id \in DOMAIN fee_payments :
    LET r == FeePaymentResource_delete(DB, id)
    IN r.status = 400 => id \in DOMAIN r.db.fee_payments

\* C6: for every student whose class has a fee structure, the grand total is
\* the sum of the six components of that fee structure plus the transport fee
\* of the student's pickup location if one is set, plus 0 otherwise; it is the
\* total a POST /fee-payment of amount 0 charges the payments against.
C6_GrandTotal ==
  \A s \in DOMAIN students :
    HasFeeStructure(s) =>
      LET f == CHOOSE g \in DOMAIN fee_structures :
                 /\ fee_structures[g].class_id = students[s].class_id
                 /\ \A h \in DOMAIN fee_structures :
                      fee_structures[h].class_id = students[s].class_id => g <= h
          location == students[s].pickup_location_id
          transport == IF location \in DOMAIN pickup_locations
                       THEN pickup_locations[location].transport_fee ELSE 0
          expected == Components(fee_structures[f]) + transport
      IN /\ calculate_grand_total(DB, students[s]) = expected
         /\ FeePaymentResource_post(DB, [student_id |-> s, amount |-> 0]).balance
              = expected - Paid(s)

\* C6 witness: a student with a pickup location of transport fee 2 and a fee
\* structure of components 10 has a payment stored against the total 12.
C6_Witness ==
  \E s \in DOMAIN students, p \in DOMAIN fee_payments :
    /\ HasFeeStructure(s)
    /\ students[s].pickup_location_id \in DOMAIN pickup_locations
    /\ pickup_locations[students[s].pickup_location_id].transport_fee = 2
    /\ calculate_grand_total(DB, students[s]) = 12
    /\ fee_payments[p].student_id = s
    /\ fee_payments[p].amount = 3
    /\ fee_payments[p].balance = 9

\* C7: every stored FeeStructure row has total_fee equal to the sum of its six
\* components.
C7_TotalFee ==
  \A f \in DOMAIN fee_structures :
    fee_structures[f].total_fee = Components(fee_structures[f])

\* C7 witness: a row created whole and then updated in one component only.
C7_Witness ==
  \E f \in DOMAIN fee_structures :
    /\ fee_structures[f].tuition_fee = OtherFees.tuition_fee
    /\ fee_structures[f].books_fee = FullFees.books_fee
    /\ fee_structures[f].total_fee = 12

\* C8: the balance of a stored payment row changes only in a
\* PUT /fee-payment/<id> on that row.
C8_Snapshot ==
  [][\A p \in DOMAIN fee_payments \cap DOMAIN fee_payments' :
       fee_payments'[p].balance # fee_payments[p].balance
         => \E data \in FeePaymentPutBodies :
              DB' = FeePaymentResource_put(DB, p, data).db]_vars

\* C8 witness: a stored balance that is no longer the live one: the student
\* has a later payment, or another total, than when the row was written.
C8_Witness ==
  \E s \in DOMAIN students : \E p, q \in PaymentsOf(fee_payments, s) :
    /\ p < q
    /\ HasFeeStructure(s)
    /\ fee_payments[q].amount = 3
    /\ fee_payments[p].balance # calculate_grand_total(DB, students[s]) - Paid(s)
    /\ fee_payments[q].balance # calculate_grand_total(DB, students[s]) - Paid(s)

\* C9: a PUT /fee-payment/<id> that answers 200 stores on the row the grand
\* total minus the amounts of the student's other rows and the row's new
\* amount, once.
C9_PutBalance ==
  \A id \in DOMAIN fee_payments, data \in FeePaymentPutBodies :
    LET r == FeePaymentResource_put(DB, id, data)
        s == fee_payments[id].student_id
        others == PaymentsOf(fee_payments, s) \ {id}
        amount == Get(data, "amount", fee_payments[id].amount)
    IN r.status = 200 =>
         /\ r.db.fee_payments[id].amount = amount
         /\ r.db.fee_payments[id].balance
              = calculate_grand_total(DB, students[s])
                - (SumOver(fee_payments, others, "amount") + amount)

\* C9 witness: the earlier of two rows holds the balance over both, which a
\* POST never stores on it: the row was updated after the later one was paid.
C9_Witness ==
  \E s \in DOMAIN students : \E p, q \in PaymentsOf(fee_payments, s) :
    /\ p < q
    /\ HasFeeStructure(s)
    /\ fee_payments[p].amount = 3 /\ fee_payments[q].amount = 3
    /\ fee_payments[p].balance = calculate_grand_total(DB, students[s]) - 6
    /\ fee_payments[q].balance = calculate_grand_total(DB, students[s]) - 6

\* C10, as claimed: a handler commits its writes once, at its end, so that
\* while a PUT /fee-payment/<id> is being served no other request finds the
\* row with its new amount committed and its balance not yet recalculated.
C10_NoIntermediateState ==
  \A w \in Workers :
    inflight[w].op = "put" /\ inflight[w].fee_payment_id \in DOMAIN fee_payments =>
      LET fee_payment == fee_payments[inflight[w].fee_payment_id]
      IN ~ (/\ fee_payment.amount # inflight[w].found.amount
            /\ fee_payment.balance = inflight[w].found.balance)

\* C11: two POST /fee-payment requests for the same student race.  Whenever
\* two workers hold a POST of positive amount for the same student, who has
\* no payment stored, both built from the total_paid that is still the
\* stored one and from the grand total the student still has, then
\* committing both (in either order) stores two rows whose balances each leave out the other
\* request's amount, and no row of the student then has balance =
\* grand_total - (sum of all the student's amounts).
C11_PostRace ==
  \A w1, w2 \in Workers :
    (/\ w1 # w2
     /\ inflight[w1].op = "post" /\ inflight[w2].op = "post"
     /\ inflight[w1].fee_payment.student_id = inflight[w2].fee_payment.student_id
     /\ inflight[w1].total_paid = Paid(inflight[w1].fee_payment.student_id)
     /\ inflight[w2].total_paid = Paid(inflight[w1].fee_payment.student_id)
     /\ inflight[w1].fee_payment.amount > 0 /\ inflight[w2].fee_payment.amount > 0
     /\ inflight[w1].fee_payment.student_id \in DOMAIN students
     /\ HasFeeStructure(inflight[w1].fee_payment.student_id)
     /\ PaymentsOf(fee_payments, inflight[w1].fee_payment.student_id) = {}
     /\ \A w \in {w1, w2} :
          inflight[w].fee_payment.balance =
            calculate_grand_total(DB, students[inflight[w].fee_payment.student_id])
              - (inflight[w].total_paid + inflight[w].fee_payment.amount))
    => LET s == inflight[w1].fee_payment.student_id
           r1 == FeePaymentResource_post_commit(DB, inflight[w1].fee_payment)
           r2 == FeePaymentResource_post_commit(r1.db, inflight[w2].fee_payment)
           grand_total == calculate_grand_total(r2.db, r2.db.students[s])
           rows == PaymentsOf(r2.db.fee_payments, s)
           all_paid == SumOver(r2.db.fee_payments, rows, "amount")
       IN /\ r1.id # r2.id /\ rows = {r1.id, r2.id}
          /\ r2.db.fee_payments[r1.id].balance
               = grand_total - (inflight[w1].total_paid + inflight[w1].fee_payment.amount)
          /\ r2.db.fee_payments[r2.id].balance
               = grand_total - (inflight[w2].total_paid + inflight[w2].fee_payment.amount)
          /\ \A p \in rows : r2.db.fee_payments[p].balance # grand_total - all_paid

\* C11 happens: one of two racing POSTs of amount 3 has committed its row,
\* the other still holds a balance computed from the total_paid it read
\* before that commit, which is the balance of the committed row.
C11_Witness ==
  \E w \in Workers, p \in DOMAIN fee_payments :
    /\ inflight[w].op = "post"
    /\ inflight[w].total_paid = 0
    /\ inflight[w].fee_payment.amount = 3
    /\ fee_payments[p].student_id = inflight[w].fee_payment.student_id
    /\ fee_payments[p].amount = 3
    /\ fee_payments[p].balance = inflight[w].fee_payment.balance
    /\ Paid(fee_payments[p].student_id) = 3

\* C12, as claimed: in every reachable state no two fee structure rows have
\* the same class_id.
C12_OneFeeStructurePerClass ==
  \A f, g \in DOMAIN fee_structures :
    fee_structures[f].class_id = fee_structures[g].class_id => f = g

\* C13, as claimed: DELETE /classes/<id> on an existing class answers 200
\* and leaves neither the class, nor a student of it, nor a score or payment
\* of such a student, nor a fee structure of the class.
C13_ClassDeleteCascades ==
  \A id \in DOMAIN classes :
    LET r == ClassResource_delete(DB, id)
        gone == StudentsOf(DB, id)
    IN /\ r.status = 200
       /\ id \notin DOMAIN r.db.classes
       /\ StudentsOf(r.db, id) = {}
       /\ FeeStructuresOf(r.db, id) = {}
       /\ \A g \in DOMAIN r.db.score_grades : r.db.score_grades[g].student_id \notin gone
       /\ \A q \in DOMAIN r.db.fee_payments : r.db.fee_payments[q].student_id \notin gone

\* C14: DELETE /students/<id> on an existing student answers 200 and leaves
\* no score grade and no payment of that student, while the other students
\* and every score grade and payment of another student stay as they were.
C14_StudentDeleteCascades ==
  \A id \in DOMAIN students :
    LET r == StudentResource_delete(DB, id)
    IN /\ r.status = 200
       /\ id \notin DOMAIN r.db.students
       /\ ScoresOf(r.db.score_grades, id) = {}
       /\ PaymentsOf(r.db.fee_payments, id) = {}
       /\ \A s \in DOMAIN students \ {id} :
            s \in DOMAIN r.db.students /\ r.db.students[s] = students[s]
       /\ \A g \in DOMAIN score_grades \ ScoresOf(score_grades, id) :
            g \in DOMAIN r.db.score_grades /\ r.db.score_grades[g] = score_grades[g]
       /\ \A q \in DOMAIN fee_payments \ PaymentsOf(fee_payments, id) :
            q \in DOMAIN r.db.fee_payments /\ r.db.fee_payments[q] = fee_payments[q]

\* C14 happens: a student with a score grade and a payment can be deleted
\* while another student has a score grade and a payment too.
C14_Witness ==
  \E s, t \in DOMAIN students :
    /\ s # t
    /\ ScoresOf(score_grades, s) # {} /\ PaymentsOf(fee_payments, s) # {}
    /\ ScoresOf(score_grades, t) # {} /\ PaymentsOf(fee_payments, t) # {}

\* The letters from worst to best, the place of a letter among them, and
\* the thresholds from which the letters after E are given.
GradeOrder == <<"E", "D-", "D", "D+", "C-", "C", "C+", "B-", "B", "B+", "A-", "A">>
Rank(letter) == CHOOSE i \in 1..Len(GradeOrder) : GradeOrder[i] = letter
BandFrom == <<30, 35, 40, 45, 50, 55, 60, 65, 70, 75, 80>>

\* C15: calculate_grade returns None for None; for a number it returns the
\* letter of the greatest threshold that the number reaches (80 A, 75 A-,
\* 70 B+, 65 B, 60 B-, 55 C+, 50 C, 45 C-, 40 D+, 35 D, 30 D-) and E when it
\* reaches none; a number above 100 gets A and a number under 30, negative
\* ones included, gets E.
C15_GradeBands ==
  \A w \in Workers :
    inflight[w].op = "calculate_grade" =>
      LET percentage == inflight[w].percentage
          grade == inflight[w].grade
      IN /\ percentage = Null => grade = Null
         /\ percentage # Null =>
              LET x == percentage[1]
                  reached == {i \in 1..Len(BandFrom) : x.num >= BandFrom[i] * x.den}
              IN /\ grade # Null
                 /\ Rank(grade[1]) = Cardinality(reached) + 1
                 /\ x.num > 100 * x.den => grade = Some("A")
                 /\ x.num < 30 * x.den => grade = Some("E")

\* C15 happens: calculate_grade has answered A for 150 and E for -5.
C15_Witness ==
  \E w \in Workers :
    /\ inflight[w].op = "calculate_grade"
    /\ inflight[w].percentage = Some(Frac(150, 1))
    /\ inflight[w].grade = Some("A")
    /\ \E v \in Workers :
         /\ inflight[v].op = "calculate_grade"
         /\ inflight[v].percentage = Some(Frac(-5, 1))
         /\ inflight[v].grade = Some("E")

\* C19: calculate_grade is monotonic and total on numbers: every number
\* gets one of the twelve letters, of two numbers x <= y the letter of y is
\* not worse than the letter of x, and the bands meet without a gap: under
\* 30 is E, 30 is D-, under 80 and at least 75 is A-, 80 is A.
C19_GradeMonotonic ==
  \A v, w \in Workers :
    (/\ inflight[v].op = "calculate_grade" /\ inflight[w].op = "calculate_grade"
     /\ inflight[v].percentage # Null /\ inflight[w].percentage # Null)
    => LET x == inflight[v].percentage[1]
           y == inflight[w].percentage[1]
           letters == {GradeOrder[i] : i \in 1..Len(GradeOrder)}
       IN /\ inflight[v].grade # Null /\ inflight[v].grade[1] \in letters
          /\ x.num * y.den <= y.num * x.den
               => Rank(inflight[v].grade[1]) <= Rank(inflight[w].grade[1])
          /\ x.num = 29 * x.den => inflight[v].grade = Some("E")
          /\ x.num = 30 * x.den => inflight[v].grade = Some("D-")
          /\ x.num = 79 * x.den => inflight[v].grade = Some("A-")
          /\ x.num = 80 * x.den => inflight[v].grade = Some("A")

\* C19 happens: two workers hold the grades of 79 1/2 and of 80, on the two
\* sides of a threshold.
C19_Witness ==
  \E v, w \in Workers :
    /\ inflight[v].op = "calculate_grade" /\ inflight[w].op = "calculate_grade"
    /\ inflight[v].percentage = Some(Frac(159, 2)) /\ inflight[v].grade = Some("A-")
    /\ inflight[w].percentage = Some(Frac(160, 2)) /\ inflight[w].grade = Some("A")

\* The score grade rows of a student, term and year.
Matching(student_id, term, year) ==
  {g \in DOMAIN score_grades :
     /\ score_grades[g].student_id = student_id
     /\ score_grades[g].term = term
     /\ score_grades[g].year = year}

\* The rows a grade can be derived for: score not null and max_score > 0.
Gradable(g) ==
  /\ score_grades[g].score # Null
  /\ score_grades[g].max_score # Null
  /\ score_grades[g].max_score[1] > 0

\* C16, as claimed: the report of a student, term and year lists every score
\* grade row of that student, term and year; the entry of a row has a grade
\* exactly when the row's score is not null and its max_score is greater
\* than 0, and there is an average exactly when some row has a grade.
C16_ReportListsEveryRow ==
  \A k \in ReportKeys :
    LET r == StudentReportResource_get(DB, k[1], k[2], k[3])
        matching == Matching(k[1], k[2], k[3])
    IN matching # {} =>
         /\ r.status = 200
         /\ DOMAIN r.subjects = matching
         /\ \A g \in matching : (r.subjects[g].grade # Null) <=> Gradable(g)
         /\ (r.average_percentage # Null) <=> (\E g \in matching : Gradable(g))

\* C17: in a report, the grade of every row with a score and a max_score
\* greater than 0 is calculate_grade of 100 * score / max_score; the average
\* times the number of such rows is the sum of their percentages, and is
\* null when there is no such row; the average grade is calculate_grade of
\* the average, null with it.  Scores 78 and 52 out of 100 give A- and C,
\* the average 65 and the average grade B.
C17_ReportAverage ==
  \A k \in ReportKeys :
    LET r == StudentReportResource_get(DB, k[1], k[2], k[3])
        valid == {g \in DOMAIN r.subjects : Gradable(g)}
        total == TotalPercentage(score_grades, valid)
        scored(n) == {g \in valid : score_grades[g].score = Some(n)
                                     /\ score_grades[g].max_score = Some(100)}
    IN r.status = 200 =>
         /\ \A g \in valid :
              r.subjects[g].grade =
                calculate_grade(Some(Frac(100 * score_grades[g].score[1],
                                          score_grades[g].max_score[1])))
         /\ valid = {} => r.average_percentage = Null /\ r.average_grade = Null
         /\ valid # {} =>
              /\ r.average_percentage # Null
              /\ r.average_percentage[1].num * Cardinality(valid) * total.den
                   = total.num * r.average_percentage[1].den
              /\ r.average_grade = calculate_grade(r.average_percentage)
              /\ r.average_grade # Null
         /\ (Cardinality(valid) = 2 /\ scored(78) # {} /\ scored(52) # {}) =>
              /\ \A g \in scored(78) : r.subjects[g].grade = Some("A-")
              /\ \A g \in scored(52) : r.subjects[g].grade = Some("C")
              /\ r.average_percentage[1].num = 65 * r.average_percentage[1].den
              /\ r.average_grade = Some("B")

\* C17 happens: a report lists a 78 and a 52 out of 100 and gives the
\* average grade B.
C17_Witness ==
  \E k \in ReportKeys :
    LET r == StudentReportResource_get(DB, k[1], k[2], k[3])
    IN /\ r.status = 200
       /\ \E g, h \in DOMAIN r.subjects :
            /\ score_grades[g].score = Some(78) /\ score_grades[g].max_score = Some(100)
            /\ score_grades[h].score = Some(52) /\ score_grades[h].max_score = Some(100)
            /\ r.average_grade = Some("B")

\* C18, as claimed: the report of a student, term and year is 404 exactly
\* when no score grade row matches all three, and a report lists rows of
\* that student, term and year only.
C18_ReportNotFound ==
  \A k \in ReportKeys :
    LET r == StudentReportResource_get(DB, k[1], k[2], k[3])
    IN /\ (r.status = 404) <=> (Matching(k[1], k[2], k[3]) = {})
       /\ DOMAIN r.subjects \subseteq Matching(k[1], k[2], k[3])

\* The six named components.
ComponentNames ==
  {"tuition_fee", "books_fee", "miscellaneous_fee", "boarding_fee",
   "prize_giving_fee", "exam_fee"}

RECURSIVE SumComponents(_)
\* The values of the members of a JSON object that are named components.
SumComponents(items) ==
  IF items = <<>> THEN 0
  ELSE (IF Head(items)[1] \in ComponentNames THEN Head(items)[2] ELSE 0)
       + SumComponents(Tail(items))

\* C20: calculate_total_fee returns the sum of the members of its input that
\* are among the six named components, whatever other member there is and
\* whichever component is absent; it returns 0 for the empty input and the
\* same total for the same members sent in another order.
C20_TotalFeeOfComponents ==
  \A w \in Workers :
    inflight[w].op = "calculate_total_fee" =>
      LET items == inflight[w].items
          n == Len(items)
      IN /\ inflight[w].total_fee = SumComponents(items)
         /\ items = <<>> => inflight[w].total_fee = 0
         /\ n <= MaxItems =>
              \A f \in {g \in [1..n -> 1..n] : \A i, j \in 1..n : g[i] = g[j] => i = j} :
                calculate_total_fee(dict([i \in 1..n |-> items[f[i]]]))
                  = inflight[w].total_fee
         /\ calculate_total_fee(dict([i \in 1..n |-> items[n + 1 - i]]))
              = inflight[w].total_fee

\* C20 happens: calculate_total_fee has answered for a component sent after
\* class_id, leaving the five other components out.
C20_Witness ==
  \E w \in Workers :
    /\ inflight[w].op = "calculate_total_fee"
    /\ inflight[w].items = <<<<"class_id", 64>>, <<"boarding_fee", 8>>>>
    /\ inflight[w].total_fee = 8
\* C21: POST /auth/register with the username of a stored user answers 409
\* and creates no user; without a username or without a password it answers
\* 400 and creates no user; no two stored users share a username.
C21_RegisterConflict ==
  /\ \A data \in RegisterBodies :
       LET username == Get(data, "username", "")
           password == Get(data, "password", "")
           response == Register_post(DB, data)
       IN /\ (username = "" \/ password = "")
               => response.status = 400 /\ response.db = DB
          /\ (/\ username # ""
              /\ password # ""
              /\ \E u \in DOMAIN users : users[u].username = username)
               => response.status = 409 /\ response.db = DB
  /\ \A u, v \in DOMAIN users : users[u].username = users[v].username => u = v

\* Two users are stored and a registration under the name of one is refused.
C21_Witness ==
  /\ Cardinality(DOMAIN users) = 2
  /\ \E u \in DOMAIN users, data \in RegisterBodies :
       /\ Get(data, "username", "") = users[u].username
       /\ Register_post(DB, data).status = 409

\* C22: the entity API is behind the session authentication: while no
\* session has a login that succeeded, no request changes the students.
C22_EntityApiBehindLogin ==
  [][(\A c \in Clients : c \notin logged_in /\ ~is_authenticated(DB, session[c]))
       => UNCHANGED students]_vars

\* The grand total of a student whose class has a fee structure: the six
\* components of the first fee structure of the class, and the transport fee
\* of the pickup location the student has.
GrandTotal(student_id) ==
  LET class_id == students[student_id].class_id
      f == CHOOSE g \in DOMAIN fee_structures :
             /\ fee_structures[g].class_id = class_id
             /\ \A h \in DOMAIN fee_structures :
                  fee_structures[h].class_id = class_id => g <= h
      location == students[student_id].pickup_location_id
  IN Components(fee_structures[f])
     + (IF location \in DOMAIN pickup_locations
        THEN pickup_locations[location].transport_fee ELSE 0)

\* C23: a DELETE /fee-payment/<id> that answers 200 removes that row and no
\* other, and the balance of its response is the grand total of the student
\* as it is now minus the amounts of the student's remaining rows: the grand
\* total itself when the row was the student's only one.
C23_DeleteBalance ==
  \A id \in DOMAIN fee_payments :
    LET response == FeePaymentResource_delete(DB, id)
        s == fee_payments[id].student_id
        remaining == PaymentsOf(fee_payments, s) \ {id}
    IN response.status = 200 =>
         /\ response.db = [DB EXCEPT !.fee_payments = Delete(fee_payments, {id})]
         /\ response.balance
              = GrandTotal(s) - SumOver(fee_payments, remaining, "amount")
         /\ remaining = {} => response.balance = GrandTotal(s)

\* C23 witness: the first of two payments of 3 has been deleted; deleting the
\* one that is left answers with the grand total, 10.
C23_Witness ==
  /\ DOMAIN fee_payments = {2}
  /\ fee_payments[2].amount = 3
  /\ FeePaymentResource_delete(DB, 2).status = 200
  /\ FeePaymentResource_delete(DB, 2).balance = 10

\* C24: GET /protected answers 200 exactly in the sessions in which a login
\* has succeeded and no logout has succeeded since, and POST /auth/logout
\* answers 200 in those sessions only; a login with a username that no user
\* has, or with a password that is not the one the user registered, answers
\* 401 and leaves the session as it was, so that a session that was refused
\* stays refused.
C24_SessionLifecycle ==
  \A c \in Clients :
    /\ ProtectedResource_get(DB, session[c]).status = 200 <=> c \in logged_in
    /\ Logout_post(DB, session[c]).status = 200 <=> c \in logged_in
    /\ c \in logged_in =>
         ~is_authenticated(DB, Logout_post(DB, session[c]).session)
    /\ \A data \in LoginBodies :
         LET username == Get(data, "username", "")
             password == Get(data, "password", "")
             response == Login_post(DB, session[c], data)
         IN (/\ username # ""
             /\ password # ""
             /\ \A u \in DOMAIN users :
                  users[u].username = username
                    => users[u].password_hash # generate_password_hash(password))
              => /\ response.status = 401
                 /\ response.session = session[c]
                 /\ ProtectedResource_get(DB, response.session).status = 200
                      <=> c \in logged_in

\* C24 witness: one client is logged in and the other is not, while a user is
\* registered whose name with another password is answered 401.
C24_Witness ==
  \E c, d \in Clients :
    /\ c \in logged_in
    /\ d \notin logged_in
    /\ ProtectedResource_get(DB, session[c]).status = 200
    /\ ProtectedResource_get(DB, session[d]).status = 302
    /\ \E u \in DOMAIN users, data \in LoginBodies :
         /\ Get(data, "username", "") = users[u].username
         /\ Login_post(DB, session[d], data).status = 401

\* C25: every stored FeePayment row references a stored student: a
\* POST /fee-payment for a student_id that no student has answers 404 and
\* stores nothing, a PUT /fee-payment/<id> leaves the student_id of the row,
\* whatever its body names, and the requests that delete students (of the
\* student, of the class, of the teacher of the class, of the subject of the
\* teacher) leave no payment of a student that is gone.
C25_PaymentsReferenceStudents ==
  /\ \A p \in DOMAIN fee_payments : fee_payments[p].student_id \in DOMAIN students
  /\ \A data \in FeePaymentPostBodies(1..ManyStudents) :
       data["student_id"] \notin DOMAIN students =>
         /\ FeePaymentResource_post(DB, data).status = 404
         /\ FeePaymentResource_post(DB, data).db = DB
  /\ \A id \in DOMAIN fee_payments :
       \A data \in FeePaymentPutBodies \cup FeePaymentMoveBodies :
         LET response == FeePaymentResource_put(DB, id, data)
         IN /\ id \in DOMAIN response.db.fee_payments
            /\ response.db.fee_payments[id].student_id = fee_payments[id].student_id
  /\ \A left \in {StudentResource_delete(DB, s).db : s \in DOMAIN students}
              \cup {ClassResource_delete(DB, c).db : c \in DOMAIN classes}
              \cup {TeacherResource_delete(DB, t).db : t \in DOMAIN teachers}
              \cup {SubjectResource_delete(DB, u).db : u \in DOMAIN subjects} :
       \A p \in DOMAIN left.fee_payments :
         left.fee_payments[p].student_id \in DOMAIN left.students

\* C25 witness: student 1 has been deleted, a payment of student 2 is stored,
\* whose class has a teacher, and the delete of that teacher is answered 200.
C25_Witness ==
  /\ DOMAIN students = {2}
  /\ \E p \in DOMAIN fee_payments : fee_payments[p].student_id = 2
  /\ students[2].class_id \in DOMAIN classes
  /\ classes[students[2].class_id].teacher_id \in DOMAIN teachers
  /\ TeacherResource_delete(DB, classes[students[2].class_id].teacher_id).status = 200
  /\ FeePaymentResource_post(DB, [student_id |-> 1, amount |-> 3]).status = 404

\* C26: POST /fee-payment does not refuse or cut an amount: for a student
\* whose class has a fee structure it answers 201 and stores the amount of
\* the body, and when the payments stored and the new amount together exceed
\* the grand total the balance stored is the negative number
\* grand total - (paid + amount).
C26_Overpayment ==
  \A s \in DOMAIN students : \A amount \in Amounts \cup LargeAmounts :
    HasFeeStructure(s) =>
      LET response == FeePaymentResource_post(DB, [student_id |-> s, amount |-> amount])
      IN /\ response.status = 201
         /\ response.id \notin DOMAIN fee_payments
         /\ response.db.fee_payments[response.id].amount = amount
         /\ response.db.fee_payments[response.id].balance
              = GrandTotal(s) - (Paid(s) + amount)
         /\ Paid(s) + amount > GrandTotal(s) =>
              /\ response.balance < 0
              /\ response.db.fee_payments[response.id].balance < 0

\* C26 witness: a second payment of 7 is stored against a grand total of 10
\* or more with the balance grand total - 14.
C26_Witness ==
  \E s \in DOMAIN students : \E p, q \in PaymentsOf(fee_payments, s) :
    /\ p < q
    /\ HasFeeStructure(s)
    /\ fee_payments[p].amount = 7 /\ fee_payments[q].amount = 7
    /\ fee_payments[p].balance > 0
    /\ fee_payments[q].balance = GrandTotal(s) - 14
    /\ fee_payments[q].balance < 0

\* C27: the student a POST /students creates has no pickup location, also
\* when the body names a stored one, and its grand total is the sum of the
\* components of the fee structure alone; a student comes into being without
\* a pickup location, and gets one only by a PUT /students/<id>.
C27_NoPickupAtCreation ==
  /\ [](\A data \in StudentPostBodies :
          LET response == StudentListResource_post(DB, data)
              student == response.db.students[response.id]
          IN /\ response.status = 201
             /\ student.pickup_location_id = None
             /\ ~ValueError(response.db, student) =>
                  calculate_grand_total(response.db, student)
                    = Components(fee_structures[first(FeeStructuresOf(DB, student.class_id))]))
  /\ [][/\ \A s \in DOMAIN students' \ DOMAIN students :
             students'[s].pickup_location_id = None
        /\ \A s \in DOMAIN students \cap DOMAIN students' :
             (/\ students[s].pickup_location_id = None
              /\ students'[s].pickup_location_id # None) =>
               \E data \in StudentPickupBodies :
                 DB' = StudentResource_put(DB, s, data).db]_vars

\* C27 witness: a pickup location is stored, and the student, created after
\* it, has none: the payment of 3 left 7 of the 10 of the fee structure.
C27_Witness ==
  \E s \in DOMAIN students, p \in DOMAIN fee_payments :
    /\ 1 \in DOMAIN pickup_locations
    /\ students[s].pickup_location_id = None
    /\ StudentListResource_post(DB, [class_id |-> 1, pickup_location_id |-> 1])
         .db.students[NextId(students)].pickup_location_id = None
    /\ HasFeeStructure(s)
    /\ fee_payments[p].student_id = s
    /\ fee_payments[p].amount = 3
    /\ fee_payments[p].balance = 7

\* C28: the DELETE /teachers/<id> of a teacher none of whose classes has a
\* fee structure answers 200 and removes the teacher, the classes of the
\* teacher, the students of those classes and every score and payment of
\* those students; the other teachers, the classes that are not the
\* teacher's, the students of those and their rows stay as they are.
C28_TeacherDeleteCascades ==
  \A t \in DOMAIN teachers :
    LET response == TeacherResource_delete(DB, t)
        own == {c \in DOMAIN classes : classes[c].teacher_id = t}
        gone == {s \in DOMAIN students : students[s].class_id \in own}
        Without(table, ids) == [k \in DOMAIN table \ ids |-> table[k]]
    IN (\A f \in DOMAIN fee_structures : fee_structures[f].class_id \notin own) =>
         /\ response.status = 200
         /\ response.db.teachers = Without(teachers, {t})
         /\ response.db.classes = Without(classes, own)
         /\ response.db.students = Without(students, gone)
         /\ response.db.score_grades =
              Without(score_grades,
                      {g \in DOMAIN score_grades : score_grades[g].student_id \in gone})
         /\ response.db.fee_payments =
              Without(fee_payments,
                      {p \in DOMAIN fee_payments : fee_payments[p].student_id \in gone})
         /\ response.db.fee_structures = fee_structures
         /\ response.db.subjects = subjects
         /\ response.db.pickup_locations = pickup_locations
         /\ response.db.users = users

\* C28 witness: a teacher has a class without a fee structure, whose student
\* has a payment and a score, next to a class of another teacher with a
\* student of its own.
C28_Witness ==
  \E t, t2 \in DOMAIN teachers, c, c2 \in DOMAIN classes, s, s2 \in DOMAIN students :
    /\ t # t2
    /\ classes[c].teacher_id = t /\ classes[c2].teacher_id = t2
    /\ students[s].class_id = c /\ students[s2].class_id = c2
    /\ FeeStructuresOf(DB, c) = {}
    /\ PaymentsOf(fee_payments, s) # {}
    /\ ScoresOf(score_grades, s) # {}
    /\ TeacherResource_delete(DB, t).status = 200
    /\ s2 \in DOMAIN TeacherResource_delete(DB, t).db.students

====
